---- MODULE Spec2Model ----
(***************************************************************************)
(* Model of sign_in_app.py: the StudentSignInApp kiosk.                    *)
(*                                                                         *)
(* Text (an identifier typed in the entry, a cell of a CSV file) is a      *)
(* sequence of one-character strings.  A date is the number of the day     *)
(* (strftime("%Y-%m-%d") is the same injective format at every use, and a  *)
(* Date cell is never numeric, so read_csv returns it as written).  The    *)
(* Time column is written from the clock and never read by the program; it *)
(* is left out of the rows.                                                *)
(***************************************************************************)
EXTENDS Integers, Sequences, FiniteSets, TLC

\* ---------------------------------------------------------------- bounds
MaxSubmits == 3    \* accepted submissions in one behaviour
MaxDay     == 2    \* calendar days the clock runs through
MaxLen     == 2    \* characters typed in the entry field
MaxRoster  == 2    \* rows of the roster file
MaxRace    == 2    \* accepted submissions in one behaviour of two kiosks

\* ------------------------------------------------------------------ text
DigitSeq == <<"0", "1", "2", "3", "4", "5", "6", "7", "8", "9">>
Digits   == {DigitSeq[i] : i \in 1..Len(DigitSeq)}
DigitVal(c) == (CHOOSE i \in 1..Len(DigitSeq) : DigitSeq[i] = c) - 1

Alphabet == {" ", "0", "1", "a"}

RECURSIVE TextsOfLen(_)
TextsOfLen(n) ==
  IF n = 0 THEN {<<>>}
  ELSE {Append(t, c) : t \in TextsOfLen(n - 1), c \in Alphabet}

\* what the user can have typed in the entry when the handler runs
Inputs == UNION {TextsOfLen(n) : n \in 0..MaxLen}

\* str.strip(): leading and trailing whitespace removed
RECURSIVE LStrip(_)
LStrip(s) ==
  IF s = <<>> THEN s
  ELSE IF Head(s) = " " THEN LStrip(Tail(s)) ELSE s

RECURSIVE RStrip(_)
RStrip(s) ==
  IF s = <<>> THEN s
  ELSE IF s[Len(s)] = " " THEN RStrip(SubSeq(s, 1, Len(s) - 1)) ELSE s

Strip(s) == RStrip(LStrip(s))

\* a CSV cell that read_csv's type inference takes for an integer
IsInt(s) == s # <<>> /\ \A i \in 1..Len(s) : s[i] \in Digits

RECURSIVE ParseInt(_)
ParseInt(s) ==
  IF s = <<>> THEN 0
  ELSE 10 * ParseInt(SubSeq(s, 1, Len(s) - 1)) + DigitVal(s[Len(s)])

\* str(n) / the text to_csv writes for an integer
RECURSIVE IntToStr(_)
IntToStr(n) ==
  IF n < 10 THEN <<DigitSeq[n + 1]>>
  ELSE IntToStr(n \div 10) \o <<DigitSeq[(n % 10) + 1]>>

\* ---------------------------------------------------- DataFrame cells
\* A 'Student ID' cell of a loaded DataFrame is a Python int or a str.
StrCell(s) == [kind |-> "str", str |-> s, num |-> 0]
IntCell(n) == [kind |-> "int", str |-> <<>>, num |-> n]
CellText(c) == IF c.kind = "int" THEN IntToStr(c.num) ELSE c.str

SignedIn  == "Signed In"
SignedOut == "Signed Out"

EmptyMsg   == "Please enter a Student ID"
InvalidMsg == "Please enter a valid STUDENT ID"
InMsg      == "Thank you. You have been signed in."
OutMsg     == "Thank you. You have been successfully logged out."

NoFile     == [exists |-> FALSE, rows |-> <<>>]
File(rows) == [exists |-> TRUE, rows |-> rows]

\* pd.read_csv(file_path): the rows of the file, the 'Student ID' column
\* int64 when every cell of it is an integer and str (object) otherwise
ReadCsv(rows) ==
  IF rows # <<>> /\ \A i \in 1..Len(rows) : IsInt(rows[i].id)
  THEN [i \in 1..Len(rows) |->
          [id |-> IntCell(ParseInt(rows[i].id)),
           status |-> rows[i].status, date |-> rows[i].date]]
  ELSE [i \in 1..Len(rows) |->
          [id |-> StrCell(rows[i].id),
           status |-> rows[i].status, date |-> rows[i].date]]

\* df.to_csv(file_path, index=False): every cell as its text
ToCsv(df) ==
  [i \in 1..Len(df) |->
     [id |-> CellText(df[i].id), status |-> df[i].status, date |-> df[i].date]]

\* ---------------------------------------------------------------- roster
RosterCells == {<<"1">>, <<"0", "1">>, <<"a">>}

\* the roster file: missing, without a 'Student ID' column, or a column of
\* at most MaxRoster cells
RosterFiles ==
  {[exists |-> FALSE, column |-> FALSE, cells |-> {}],
   [exists |-> TRUE, column |-> FALSE, cells |-> {}]}
  \cup {[exists |-> TRUE, column |-> TRUE, cells |-> cs] :
          cs \in {c \in SUBSET RosterCells : Cardinality(c) <= MaxRoster}}

load_valid_users_from_csv(f) ==
  IF ~f.exists THEN {}
  ELSE IF ~f.column THEN {}
  ELSE IF f.cells # {} /\ \A c \in f.cells : IsInt(c)
       THEN {IntToStr(ParseInt(c)) : c \in f.cells}
       ELSE f.cells

\* ----------------------------------------------------------------- state
VARIABLES
  nproc,          \* kiosk processes running
  valid_users,    \* self.valid_users
  clock,          \* the date datetime.now() returns
  files,          \* daily_logs/<date>.csv: whether it exists, and its rows
  pc,             \* where each kiosk's sign_in call stands
  entry,          \* text of self.id_entry
  focus,          \* whether self.id_entry holds the input focus
  status_label,   \* text of self.status_label
  login,          \* sign_in: login
  current_date,   \* daily_log_generation: current_date
  daily_log_df,   \* sign_in: daily_log_df
  daily_log_file, \* sign_in: daily_log_file (its date)
  accepted        \* per date, sign_in calls that wrote the file and reported success

vars == <<nproc, valid_users, clock, files, pc, entry, focus, status_label,
          login, current_date, daily_log_df, daily_log_file, accepted>>

Days   == 1..MaxDay
AllK   == {1, 2}
Kiosks == 1..nproc

RECURSIVE SumTo(_, _)
SumTo(f, n) == IF n = 0 THEN 0 ELSE f[n] + SumTo(f, n - 1)

InFlight == Cardinality({p \in Kiosks : pc[p] # "idle"})

\* accepted submissions a behaviour is followed through
Budget == IF nproc = 1 THEN MaxSubmits ELSE MaxRace

InitWith(n) ==
  /\ nproc = n
  /\ \E f \in RosterFiles : valid_users = load_valid_users_from_csv(f)
  /\ clock = 1
  /\ files = [d \in Days |-> NoFile]
  /\ pc = [p \in AllK |-> "idle"]
  /\ entry = [p \in AllK |-> <<>>]
  /\ focus = [p \in AllK |-> FALSE]
  /\ status_label = [p \in AllK |-> ""]
  /\ login = [p \in AllK |-> <<>>]
  /\ current_date = [p \in AllK |-> 0]
  /\ daily_log_df = [p \in AllK |-> <<>>]
  /\ daily_log_file = [p \in AllK |-> 0]
  /\ accepted = [d \in Days |-> 0]

Init == InitWith(1)

InitKiosks == \E n \in AllK : InitWith(n)

\* ---------------------------------------------------------------- sign_in
\* Submit without the roster check of line 177
Submit_NoRosterCheck(p, text, focused) ==
  /\ pc[p] = "idle"
  /\ IF Strip(text) = <<>>
     THEN /\ status_label' = [status_label EXCEPT ![p] = EmptyMsg]
          /\ entry' = [entry EXCEPT ![p] = text]
          /\ focus' = [focus EXCEPT ![p] = focused]
          /\ UNCHANGED <<pc, login>>
     ELSE /\ SumTo(accepted, MaxDay) + InFlight < Budget
          /\ entry' = [entry EXCEPT ![p] = text]
          /\ focus' = [focus EXCEPT ![p] = focused]
          /\ login' = [login EXCEPT ![p] = Strip(text)]
          /\ pc' = [pc EXCEPT ![p] = "gen"]
          /\ UNCHANGED status_label
  /\ UNCHANGED <<nproc, valid_users, clock, files, current_date,
                 daily_log_df, daily_log_file, accepted>>

\* lines 167-180: the entry holds `text`; `focused` tells whether the entry
\* has the focus when the handler runs (Return in the entry: yes; the
\* button: wherever the focus was)
Submit(p, text, focused) ==
  /\ pc[p] = "idle"
  /\ IF Strip(text) = <<>>
     THEN /\ status_label' = [status_label EXCEPT ![p] = EmptyMsg]
          /\ entry' = [entry EXCEPT ![p] = text]
          /\ focus' = [focus EXCEPT ![p] = focused]
          /\ UNCHANGED <<pc, login>>
     ELSE IF Strip(text) \notin valid_users
     THEN /\ status_label' = [status_label EXCEPT ![p] = InvalidMsg]
          /\ entry' = [entry EXCEPT ![p] = <<>>]
          /\ focus' = [focus EXCEPT ![p] = focused]
          /\ UNCHANGED <<pc, login>>
     ELSE /\ SumTo(accepted, MaxDay) + InFlight < Budget
          /\ entry' = [entry EXCEPT ![p] = text]
          /\ focus' = [focus EXCEPT ![p] = focused]
          /\ login' = [login EXCEPT ![p] = Strip(text)]
          /\ pc' = [pc EXCEPT ![p] = "gen"]
          /\ UNCHANGED status_label
  /\ UNCHANGED <<nproc, valid_users, clock, files, current_date,
                 daily_log_df, daily_log_file, accepted>>

\* lines 68-72: the date is read and the day's file looked for
Gen(p) ==
  /\ pc[p] = "gen"
  /\ current_date' = [current_date EXCEPT ![p] = clock]
  /\ pc' = [pc EXCEPT ![p] = IF files[clock].exists THEN "read" ELSE "create"]
  /\ UNCHANGED <<nproc, valid_users, clock, files, entry, focus, status_label,
                 login, daily_log_df, daily_log_file, accepted>>

\* lines 73-74: an empty table is written to the day's file
Create(p) ==
  /\ pc[p] = "create"
  /\ files' = [files EXCEPT ![current_date[p]] = File(<<>>)]
  /\ pc' = [pc EXCEPT ![p] = "read"]
  /\ UNCHANGED <<nproc, valid_users, clock, entry, focus, status_label, login,
                 current_date, daily_log_df, daily_log_file, accepted>>

\* line 77
Read(p) ==
  /\ pc[p] = "read"
  /\ daily_log_df' = [daily_log_df EXCEPT ![p] = ReadCsv(files[current_date[p]].rows)]
  /\ pc' = [pc EXCEPT ![p] = "path"]
  /\ UNCHANGED <<nproc, valid_users, clock, files, entry, focus, status_label,
                 login, current_date, daily_log_file, accepted>>

\* Path with the date of the program's start instead of the date of the call
Path_StartupDate(p) ==
  /\ pc[p] = "path"
  /\ daily_log_file' = [daily_log_file EXCEPT ![p] = 1]
  /\ pc' = [pc EXCEPT ![p] = "log"]
  /\ UNCHANGED <<nproc, valid_users, clock, files, entry, focus, status_label,
                 login, current_date, daily_log_df, accepted>>

\* line 184: the date is read again for the path of the file to write
Path(p) ==
  /\ pc[p] = "path"
  /\ daily_log_file' = [daily_log_file EXCEPT ![p] = clock]
  /\ pc' = [pc EXCEPT ![p] = "log"]
  /\ UNCHANGED <<nproc, valid_users, clock, files, entry, focus, status_label,
                 login, current_date, daily_log_df, accepted>>

\* student_already_signed_in without the 'Student ID' half of the filter
student_already_signed_in_AnyStudent(df, student_id) ==
  \E i \in 1..Len(df) : df[i].status = SignedIn

\* lines 79-83
student_already_signed_in(df, student_id) ==
  \E i \in 1..Len(df) :
    /\ df[i].id.kind = "str"
    /\ df[i].id.str = student_id
    /\ df[i].status = SignedIn

\* log_student_sign_in that writes new_row alone, without the concat of line 99
log_student_sign_in_NoConcat(df, student_id, status) ==
  File(ToCsv(<<[id |-> StrCell(student_id), status |-> status, date |-> clock]>>))

\* lines 85-102: the date is read a third time for the row
log_student_sign_in(df, student_id, status) ==
  File(ToCsv(Append(df, [id |-> StrCell(student_id), status |-> status, date |-> clock])))

\* lines 186-198
Log(p) ==
  /\ pc[p] = "log"
  /\ LET out == student_already_signed_in(daily_log_df[p], login[p])
         status == IF out THEN SignedOut ELSE SignedIn
     IN /\ files' = [files EXCEPT ![daily_log_file[p]] =
                       log_student_sign_in(daily_log_df[p], login[p], status)]
        /\ status_label' = [status_label EXCEPT ![p] = IF out THEN OutMsg ELSE InMsg]
  /\ entry' = [entry EXCEPT ![p] = <<>>]
  /\ focus' = [focus EXCEPT ![p] = TRUE]
  /\ accepted' = [accepted EXCEPT ![daily_log_file[p]] = @ + 1]
  /\ pc' = [pc EXCEPT ![p] = "idle"]
  \* the call returns: its locals are gone
  /\ login' = [login EXCEPT ![p] = <<>>]
  /\ current_date' = [current_date EXCEPT ![p] = 0]
  /\ daily_log_df' = [daily_log_df EXCEPT ![p] = <<>>]
  /\ daily_log_file' = [daily_log_file EXCEPT ![p] = 0]
  /\ UNCHANGED <<nproc, valid_users, clock>>

\* Midnight passes: datetime.now() returns the next date from here on, also
\* to a sign_in call that has read the clock already.
Tick ==
  /\ clock < MaxDay
  /\ clock' = clock + 1
  /\ UNCHANGED <<nproc, valid_users, files, pc, entry, focus, status_label,
                 login, current_date, daily_log_df, daily_log_file, accepted>>

Next ==
  \/ \E p \in Kiosks, text \in Inputs, focused \in BOOLEAN : Submit(p, text, focused)
  \/ \E p \in Kiosks : Gen(p)
  \/ \E p \in Kiosks : Create(p)
  \/ \E p \in Kiosks : Read(p)
  \/ \E p \in Kiosks : Path(p)
  \/ \E p \in Kiosks : Log(p)
  \/ Tick

\* one kiosk: the deployment the program is written for
Spec == Init /\ [][Next]_vars

\* one or two kiosks on the same daily_logs directory
SpecKiosks == InitKiosks /\ [][Next]_vars

\* ---------------------------------------------------------------- claims
\* the step in which kiosk p's sign_in call writes the file and returns
LogStep(p) == pc[p] = "log" /\ pc'[p] = "idle"

\* the three readings of the clock in kiosk p's call gave the same date
SameDay(p) == current_date[p] = clock /\ daily_log_file[p] = clock

\* the positions of the rows of a file that carry the identifier
RowsOf(rows, id) == {i \in 1..Len(rows) : rows[i].id = id}

LastOf(S) == CHOOSE i \in S : \A j \in S : j <= i

\* the last row of the file kiosk p's call writes
NewRow(p) ==
  LET rows == files'[daily_log_file[p]].rows IN rows[Len(rows)]

Opposite(status) == IF status = SignedIn THEN SignedOut ELSE SignedIn

\* C1: on one day, the submission of a member with no row in today's log
\* appends 'Signed In' with the 'signed in' message, and the member's next
\* submission, nothing submitted in between (the member's only row is the
\* last row of today's log), appends 'Signed Out' with the 'logged out' message.
C1_TwiceTogglesInThenOut ==
  [][\A p \in Kiosks :
       LogStep(p) /\ SameDay(p) =>
         LET rows == files[clock].rows
             mine == RowsOf(rows, login[p])
         IN /\ mine = {} =>
                 NewRow(p).status = SignedIn /\ status_label'[p] = InMsg
            /\ (mine = {Len(rows)} /\ rows[Len(rows)].status = SignedIn) =>
                 NewRow(p).status = SignedOut /\ status_label'[p] = OutMsg]_vars

\* C2: a submission that is blank after trimming reports the empty-input
\* failure, one that is not blank and not in the roster reports the
\* unknown-member failure, and neither changes any daily log file or goes on
\* to the log.
C2_RejectedLeavesLogs ==
  [][\A p \in Kiosks, text \in Inputs, focused \in BOOLEAN :
       (Submit(p, text, focused)
          /\ (Strip(text) = <<>> \/ Strip(text) \notin valid_users)) =>
         /\ files' = files
         /\ pc'[p] = "idle"
         /\ status_label'[p] = IF Strip(text) = <<>> THEN EmptyMsg ELSE InvalidMsg]_vars

\* an unknown member was turned away with an empty roster and no file written
C2_Witness ==
  /\ valid_users = {}
  /\ status_label[1] = InvalidMsg
  /\ \A d \in Days : ~files[d].exists

\* C3: when today's log holds no row of the member, the call writes a file
\* that has exactly one row more than today's log, that row is the member's
\* with status 'Signed In', and no other file changes, whatever rows of other
\* members the log holds.
C3_FirstSubmissionSignsIn ==
  [][\A p \in Kiosks :
       (LogStep(p) /\ RowsOf(files[current_date[p]].rows, login[p]) = {}) =>
         /\ Len(files'[daily_log_file[p]].rows) = Len(files[current_date[p]].rows) + 1
         /\ NewRow(p).id = login[p]
         /\ NewRow(p).status = SignedIn
         /\ \A d \in Days \ {daily_log_file[p]} : files'[d] = files[d]]_vars

\* a member was signed in after another member, who is still signed in
C3_Witness ==
  \E d \in Days :
    /\ Len(files[d].rows) = 2
    /\ files[d].rows[1].id # files[d].rows[2].id
    /\ files[d].rows[1].status = SignedIn
    /\ files[d].rows[2].status = SignedIn
    /\ status_label[1] = InMsg

\* C4: on one day, an accepted submission appends the opposite of the status
\* of the member's most recent row in today's log, and 'Signed In' when the
\* member has none.
C4_TogglesMostRecent ==
  [][\A p \in Kiosks :
       LogStep(p) /\ SameDay(p) =>
         LET rows == files[clock].rows
             mine == RowsOf(rows, login[p])
         IN NewRow(p).status =
              IF mine = {} THEN SignedIn ELSE Opposite(rows[LastOf(mine)].status)]_vars

\* C5: an accepted submission leaves in the file it writes the rows the file
\* held, unchanged and in order, followed by one new row, and leaves every
\* other file alone; no step makes a file shorter.
C5_AppendOnly ==
  [][/\ \A d \in Days : Len(files'[d].rows) >= Len(files[d].rows)
     /\ \A p \in Kiosks :
          LogStep(p) =>
            LET d == daily_log_file[p] IN
              /\ Len(files'[d].rows) = Len(files[d].rows) + 1
              /\ SubSeq(files'[d].rows, 1, Len(files[d].rows)) = files[d].rows
              /\ \A e \in Days \ {d} : files'[e] = files[e]]_vars

\* C6: a daily log file comes into existence only by a step of a sign_in
\* call (the creation of line 74 or the write of line 102), and only for a
\* date the clock has shown during that call: a date from the call's first
\* reading of the clock to the date at the creation.
C6_CreatedOnItsDate ==
  [][\A d \in Days :
       (~files[d].exists /\ files'[d].exists) =>
         \E p \in Kiosks :
           /\ pc[p] \in {"create", "log"}
           /\ pc'[p] # pc[p]
           /\ current_date[p] <= d
           /\ d <= clock]_vars

\* midnight passed inside a call: the next day's file was created by the
\* write of a call that loaded the day before's log
C6_Witness ==
  \E d \in Days :
    /\ files[d].exists
    /\ files[d].rows # <<>>
    /\ files[d].rows[1].date < d

\* C7: when a sign_in call has returned, whatever its outcome, the entry is
\* empty and holds the focus.
C7_EntryClearedAndFocused ==
  \A p \in Kiosks :
    (pc[p] = "idle" /\ status_label[p] # "") => (entry[p] = <<>> /\ focus[p])

\* C8: once the log loaded for the call holds a 'Signed In' row of the member,
\* an accepted submission of the member appends 'Signed Out'.
C8_SignedInRowMeansOut ==
  [][\A p \in Kiosks :
       (LogStep(p)
          /\ \E i \in RowsOf(files[current_date[p]].rows, login[p]) :
               files[current_date[p]].rows[i].status = SignedIn) =>
         NewRow(p).status = SignedOut]_vars

\* C9: with one kiosk, no file holds fewer rows than the submissions that
\* wrote it and were reported successful; with two kiosks such a file is
\* reachable (the witness).
C9_NoLostRecordWithOneKiosk ==
  nproc = 1 => \A d \in Days : Len(files[d].rows) >= accepted[d]

\* two kiosks, and a file with fewer rows than successful submissions
C9_Witness ==
  /\ nproc = 2
  /\ \E d \in Days : Len(files[d].rows) < accepted[d]

\* C10: every row of the file named for a date carries that date, and the
\* table a call is about to write into a date's file was loaded from that
\* date's file.
C10_RowsCarryFileDate ==
  /\ \A d \in Days : \A i \in 1..Len(files[d].rows) : files[d].rows[i].date = d
  /\ \A p \in Kiosks : pc[p] = "log" => daily_log_file[p] = current_date[p]

====
